---- MODULE Spec2Model ----
(***************************************************************************)
(* The WhatsApp assistant backend: the webhook handler (main.py), the      *)
(* Assistant turn (assistant/assistant.py: graph wiring, chat node,        *)
(* generate_response with its stream aggregation) and the calendar tools.  *)
(*                                                                         *)
(* Texts are sequences of one-character strings, so that "starts with {"   *)
(* is computed.  Long literals of the source are abbreviated to a few      *)
(* characters that keep their first character.                             *)
(***************************************************************************)
EXTENDS Integers, Sequences, FiniteSets, TLC

(***************************************************************************)
(* Bounds of the model.                                                    *)
(***************************************************************************)
\* webhook requests accepted in one behaviour
MaxTurns == 2
\* rows of the messages table and largest limit, for the history loader
\* taken alone
MaxRows == 3
MaxLimit == 2
\* latest start time of a calendar event, for delete_calendar_event taken
\* alone (times are whole numbers, an event ends after it starts)
MaxTime == 3
\* super-steps one graph.stream call may run.  generate_response passes a
\* config that holds only thread_id, so the graph library's default
\* recursion limit applies (25 in the library); the model scales it down.
RecursionLimit == 3
\* streamed events drawn for the aggregation loop taken alone
MaxEvents == 3
\* failures of a collaborator (database, Twilio, a process crash) in one
\* behaviour; a tool that raises is not counted
MaxFaults == 1

Threads == {"+54911", "+54922"}
ToNumber == "whatsapp:bot"
Reqs == {1, 2}
Procs == {1, 2}
Bodies == {<<"q">>}

(***************************************************************************)
(* Message content: a plain string, a list of content blocks, or None.     *)
(***************************************************************************)
StrC(s) == [kind |-> "str", s |-> s, items |-> <<>>]
ListC(items) == [kind |-> "list", s |-> <<>>, items |-> items]
NoneC == [kind |-> "none", s |-> <<>>, items |-> <<>>]

\* a dict block with a 'text' key, a bare str item, an object with a .text
\* attribute, and a block with neither (a function_call / reasoning block)
DictTextBlock(t) == [kind |-> "dict_text", text |-> t]
StrBlock(t) == [kind |-> "str", text |-> t]
ObjTextBlock(t) == [kind |-> "obj_text", text |-> t]
OtherBlock == [kind |-> "other", text |-> <<>>]

\* Python truthiness of message_chunk.content
Truthy(c) ==
  CASE c.kind = "str" -> c.s # <<>>
    [] c.kind = "list" -> c.items # <<>>
    [] OTHER -> FALSE

StartsWith(t, ch) == Len(t) > 0 /\ t[1] = ch

RECURSIVE ExtractListText(_)
ExtractListText(items) ==
  IF items = <<>> THEN <<>>
  ELSE LET item == Head(items)
           piece == IF item.kind \in {"dict_text", "str", "obj_text"}
                    THEN item.text ELSE <<>>
       IN piece \o ExtractListText(Tail(items))

ExtractText(c) ==
  IF c.kind = "list" THEN ExtractListText(c.items) ELSE c.s

\* one streamed step: is it a 2-tuple, has its first member a content attribute
Event(c) == [tuple2 |-> TRUE, has_content |-> TRUE, content |-> c]

AcceptAll(buf, ev) ==
  IF ev.tuple2 /\ ev.has_content /\ Truthy(ev.content)
  THEN buf \o ExtractText(ev.content)
  ELSE buf

\* final_response = content in place of final_response += content
AcceptOverwrite(buf, ev) ==
  IF ev.tuple2 /\ ev.has_content /\ Truthy(ev.content)
  THEN LET text == ExtractText(ev.content)
       IN IF text # <<>> /\ ~StartsWith(text, "{") THEN text ELSE buf
  ELSE buf

\* the body of the for loop of generate_response, on one step
Accept(buf, ev) ==
  IF ev.tuple2 /\ ev.has_content /\ Truthy(ev.content)
  THEN LET text == ExtractText(ev.content)
       IN IF text # <<>> /\ ~StartsWith(text, "{") THEN buf \o text ELSE buf
  ELSE buf

RECURSIVE AcceptSeq(_, _)
AcceptSeq(buf, evs) ==
  IF evs = <<>> THEN buf ELSE AcceptSeq(Accept(buf, Head(evs)), Tail(evs))

(***************************************************************************)
(* Messages of the graph state.  by is the id of the message: the turn     *)
(* that created it (the library gives every message a unique id).          *)
(***************************************************************************)
Msg(role, content, tool_calls, tool_call_id, by) ==
  [role |-> role, content |-> content, tool_calls |-> tool_calls,
   tool_call_id |-> tool_call_id, by |-> by]

ToolCall(id, name) == [id |-> id, name |-> name]

\* abbreviated texts
SystemText == <<"S">>
DeletedText == <<"E", "v">>
ListText == <<"[", "]">>
DictText == <<"{", "}">>
UnknownToolText == <<"!", "u">>
ToolErrorText == <<"!", "e">>

\* the tools bound to the model and handed to the tool node
RegisteredTools ==
  {"tavily_search", "create_calendar_event", "get_calendar_events",
   "delete_calendar_event"}

\* what a registered tool gives back when it does not raise
ToolPayload(name) ==
  CASE name = "delete_calendar_event" -> [kind |-> "str", text |-> DeletedText]
    [] name = "get_calendar_events" -> [kind |-> "list", text |-> ListText]
    [] OTHER -> [kind |-> "dict", text |-> DictText]

\* no lookup of the name, no catch around the call
ToolResultTextUncaught(call, o) == ToolPayload(call.name).text

\* the tool node's content for one call: o is "ok" or "raise"
ToolResultText(call, o) ==
  IF call.name \notin RegisteredTools THEN UnknownToolText
  ELSE IF o = "raise" THEN ToolErrorText
  ELSE ToolPayload(call.name).text

\* per call of one Tools step: the tool returns ("ok") or raises ("raise":
\* ValueError of create/delete_calendar_event, RuntimeError of the API)
ToolOutcomes == UNION {[1..n -> {"ok", "raise"}] : n \in 0..3}

ToolMessagesReversed(calls, outs, by) ==
  [i \in 1..Len(calls) |->
     Msg("tool", StrC(ToolResultText(calls[Len(calls) + 1 - i],
                                     outs[Len(calls) + 1 - i])),
         <<>>, calls[Len(calls) + 1 - i].id, by)]

\* the tool node on the tool calls of the latest message
ToolMessages(calls, outs, by) ==
  [i \in 1..Len(calls) |->
     Msg("tool", StrC(ToolResultText(calls[i], outs[i])), <<>>,
         calls[i].id, by)]

\* what the bound chat model may answer: the streamed chunks of the content
\* and the tool calls of the finished message
OutText == [chunks |-> <<StrC(<<"h">>), StrC(<<"i">>)>>, tool_calls |-> <<>>]
OutJson == [chunks |-> <<StrC(<<"{", "h">>)>>, tool_calls |-> <<>>]
OutOneCall ==
  [chunks |-> <<>>, tool_calls |-> <<ToolCall("c1", "get_calendar_events")>>]
OutCalls ==
  [chunks |-> <<ListC(<<DictTextBlock(<<"o">>), OtherBlock>>)>>,
   tool_calls |-> <<ToolCall("c2", "delete_calendar_event"),
                    ToolCall("c3", "no_such_tool"),
                    ToolCall("c1", "no_such_tool")>>]
AgentOutputs == {OutText, OutJson, OutOneCall, OutCalls}

RECURSIVE ConcatItems(_)
ConcatItems(chunks) ==
  IF chunks = <<>> THEN <<>>
  ELSE (IF Head(chunks).kind = "list" THEN Head(chunks).items
        ELSE <<StrBlock(Head(chunks).s)>>) \o ConcatItems(Tail(chunks))

RECURSIVE ConcatStr(_)
ConcatStr(chunks) ==
  IF chunks = <<>> THEN <<>> ELSE Head(chunks).s \o ConcatStr(Tail(chunks))

\* the content of the finished assistant message: its chunks, merged
MergeChunks(chunks) ==
  IF \E i \in 1..Len(chunks) : chunks[i].kind = "list"
  THEN ListC(ConcatItems(chunks))
  ELSE StrC(ConcatStr(chunks))

AIMessage(out, by) ==
  Msg("assistant", MergeChunks(out.chunks), out.tool_calls, "", by)

(***************************************************************************)
(* The graph: START -> chat, chat -> (route_tools) {tools, END},           *)
(* chat -> END, tools -> chat.                                             *)
(***************************************************************************)
END == "__end__"

\* BasicToolNode.route_tools
RouteTools(m) ==
  IF m.role = "assistant" /\ Len(m.tool_calls) > 0 THEN "tools" ELSE END

\* the path map of add_conditional_edges
PathMapSwapped(r) == IF r = "tools" THEN END ELSE "tools"

PathMap(r) == IF r = "tools" THEN "tools" ELSE END

\* add_edge("tools", END) in place of add_edge("tools", "chat")
EdgesToolsEnd(n) ==
  CASE n = "__start__" -> {"chat"}
    [] n = "chat" -> {END}
    [] n = "tools" -> {END}
    [] OTHER -> {}

\* the static edges added with add_edge
Edges(n) ==
  CASE n = "__start__" -> {"chat"}
    [] n = "chat" -> {END}
    [] n = "tools" -> {"chat"}
    [] OTHER -> {}

\* the nodes triggered for the next super-step once node n has written its
\* messages: every static and conditional target; END triggers nothing
Targets(n, latest) ==
  (Edges(n) \cup (IF n = "chat" THEN {PathMap(RouteTools(latest))} ELSE {}))
    \ {END}

\* tools is the only target chat ever has besides END
NextNode(n, latest) ==
  LET ts == Targets(n, latest)
  IN IF ts = {} THEN END ELSE CHOOSE t \in ts : TRUE

(***************************************************************************)
(* The checkpointer, keyed by thread_id.                                   *)
(***************************************************************************)
NoCheckpoint == [saved |-> FALSE, messages |-> <<>>]

Load(st, t) == st[t]

Save(st, t, msgs) == [st EXCEPT ![t] = [saved |-> TRUE, messages |-> msgs]]

\* compile() without the checkpointer
StepCheckpointNone(st, t, msgs) == st

\* the graph is compiled with the checkpointer: the state is saved under the
\* config's thread_id after the input and after every super-step
StepCheckpoint(st, t, msgs) == Save(st, t, msgs)

HasStepsAlways(n) == TRUE

\* whether a stream call that ran n super-steps may run another
HasSteps(n) == n < RecursionLimit

(***************************************************************************)
(* The audio branch of receive_message.                                    *)
(***************************************************************************)
\* abbreviated texts of the audio branch
TranscriptText == <<"t">>
UnintelligibleText == <<"(", "U">>
ErrorAudioText == <<"(", "E">>

\* what a webhook can carry as MediaContentType0/MediaUrl0: no audio; audio
\* that is transcribed; audio whose transcription is empty or fails
\* (transcribe_audio catches the failure and returns ""); audio whose download
\* raises
AudioKinds == {"none", "ok", "empty", "download_fails"}

\* transcribe_audio: the transcription, or "" when the call raises
Transcribe(a) == IF a = "ok" THEN TranscriptText ELSE <<>>

\* body of receive_message: the Body field, or for an audio attachment the
\* transcript, or a placeholder
BodyOf(form_body, a) ==
  CASE a = "none" -> form_body
    [] a = "download_fails" -> ErrorAudioText
    [] OTHER -> IF Transcribe(a) # <<>> THEN Transcribe(a)
                ELSE UnintelligibleText

(***************************************************************************)
(* State.                                                                  *)
(***************************************************************************)
VARIABLES
  store,     \* checkpointer: thread_id -> latest checkpoint
  hist,      \* the messages table (models.Message rows, in id order)
  sent,      \* messages created through the Twilio client
  proc,      \* the server process that handles each request slot
  alive,     \* which server processes run
  loop,      \* per process: the request its event loop is running (0: none)
  pc,        \* per request: where its handler is
  thread,    \* From of the request (the thread_id)
  prompt,    \* body handed to generate_response
  turn,      \* id of the turn
  mem,       \* the graph state's messages of the running stream
  node,      \* the node the next super-step runs
  steps,     \* super-steps run by this stream call
  reply,     \* final_response
  base,      \* number of messages the turn found in the checkpoint
  invoked,   \* times the turn invoked the chat model
  lastStep,  \* the super-step that ran last in this turn
  nturns,    \* requests accepted so far
  faults,    \* collaborator failures so far
  err,       \* per request: what the turn raised ("none": nothing)
  stored,    \* per request: the prompt's row was committed
  audio,     \* per request: the audio attachment of the webhook ("none": no audio)
  media,     \* the kinds of attachment the senders use
  setups,    \* per process: times a PostgresSaver was opened and set up
  ended,     \* the requests answered so far: turn, From, status
  table,     \* the history loader alone: the rows of the messages table
  hq,        \* the history loader alone: its arguments
  hres,      \* the history loader alone: what it returned
  cal,       \* delete_calendar_event alone: the events of the calendar
  cq,        \* delete_calendar_event alone: its argument, the API's health
  cres,      \* delete_calendar_event alone: its outcome
  cenv,      \* Assistant.__init__ alone: which of its calls succeed
  ctor,      \* Assistant.__init__ alone: where it is, what it has built
  events,    \* the aggregation loop alone: the streamed steps
  pos,       \* the aggregation loop alone: steps consumed
  buffer     \* the aggregation loop alone: final_response

reqVars == <<pc, thread, prompt, turn, mem, node, steps, reply, base, invoked,
             lastStep, err, stored, audio>>
errVars == <<err, stored>>
envVars == <<media>>
histVars == <<table, hq, hres>>
calVars == <<cal, cq, cres>>
ctorVars == <<cenv, ctor>>
funVars == <<table, hq, hres, cal, cq, cres, cenv, ctor>>
aggVars == <<events, pos, buffer>>
sysVars == <<store, hist, sent, proc, alive, loop, nturns, faults, setups,
            ended>>
vars == <<store, hist, sent, proc, alive, loop, pc, thread, prompt, turn, mem,
          node, steps, reply, base, invoked, lastStep, nturns, faults, err,
          stored, audio, media, setups, ended, table, hq, hres, cal, cq, cres,
          cenv, ctor, events, pos, buffer>>

HistRecord(from, to, content, type) ==
  [from |-> from, to |-> to, content |-> content, message_type |-> type]

InitCommon ==
  /\ store = [t \in Threads |-> NoCheckpoint]
  /\ hist = <<>>
  /\ sent = <<>>
  /\ alive = [p \in Procs |-> TRUE]
  /\ loop = [p \in Procs |-> 0]
  /\ pc = [r \in Reqs |-> "idle"]
  /\ thread = [r \in Reqs |-> "+54911"]
  /\ prompt = [r \in Reqs |-> <<>>]
  /\ turn = [r \in Reqs |-> 0]
  /\ mem = [r \in Reqs |-> <<>>]
  /\ node = [r \in Reqs |-> END]
  /\ steps = [r \in Reqs |-> 0]
  /\ reply = [r \in Reqs |-> <<>>]
  /\ base = [r \in Reqs |-> 0]
  /\ invoked = [r \in Reqs |-> 0]
  /\ lastStep = [r \in Reqs |-> "none"]
  /\ nturns = 0
  /\ faults = 0
  /\ err = [r \in Reqs |-> "none"]
  /\ stored = [r \in Reqs |-> FALSE]
  /\ audio = [r \in Reqs |-> "none"]
  /\ setups = [p \in Procs |-> 0]
  /\ ended = {}
  /\ pos = 0
  /\ buffer = <<>>

\* Assistant.__init__ before its loop over the connection strings:
\* self.memory = None, last_err = None, nothing tried
CtorStart ==
  [pc |-> "connect", memory |-> "none", tried |-> <<>>, last_err |-> "none",
   setup_done |-> FALSE, compiled |-> FALSE, raised |-> "none"]

\* nothing is asked of the functions that are checked alone
InitFun ==
  /\ table = <<>>
  /\ hq = [a |-> ToNumber, b |-> ToNumber, limit |-> 0, dbok |-> TRUE]
  /\ hres = [done |-> FALSE, rows |-> <<>>]
  /\ cal = {}
  /\ cq = [start_time |-> 1, api_ok |-> TRUE]
  /\ cres = [done |-> FALSE, outcome |-> "none", deleted |-> {}]
  /\ cenv = [url_ok |-> TRUE, dsn_ok |-> TRUE, setup_ok |-> TRUE,
             client_ok |-> TRUE, file_ok |-> TRUE]
  /\ ctor = CtorStart

\* one server process: every request is a coroutine of the same event loop
Init ==
  /\ InitCommon
  /\ InitFun
  /\ proc = [r \in Reqs |-> 1]
  /\ events = <<>>
  /\ media = {"none"}

\* one server process per request slot (several workers on one database)
InitWorkers ==
  /\ InitCommon
  /\ InitFun
  /\ proc = [r \in Reqs |-> r]
  /\ events = <<>>
  /\ media = {"none"}

\* one server process whose senders also send voice messages
InitAudio ==
  /\ InitCommon
  /\ InitFun
  /\ proc = [r \in Reqs |-> 1]
  /\ events = <<>>
  /\ media = AudioKinds \ {"none"}

\* a coroutine runs when its process is up and the loop is free or its own
CanRun(r) == alive[proc[r]] /\ loop[proc[r]] \in {0, r}

(***************************************************************************)
(* receive_message                                                         *)
(***************************************************************************)
\* the request arrives; the handler awaits request.form()
Receive(r, t, b, a) ==
  /\ pc[r] = "idle"
  /\ a \in media
  /\ audio' = [audio EXCEPT ![r] = a]
  /\ alive[proc[r]]
  /\ nturns < MaxTurns
  /\ pc' = [pc EXCEPT ![r] = "form"]
  /\ thread' = [thread EXCEPT ![r] = t]
  /\ prompt' = [prompt EXCEPT ![r] = b]
  /\ turn' = [turn EXCEPT ![r] = nturns + 1]
  /\ nturns' = nturns + 1
  /\ UNCHANGED <<store, hist, sent, proc, alive, loop, mem, node, steps, reply,
                 base, invoked, lastStep, faults>>
  /\ UNCHANGED errVars
  /\ UNCHANGED aggVars
  /\ UNCHANGED ended
  /\ UNCHANGED setups
  /\ UNCHANGED envVars
  /\ UNCHANGED funVars

\* Assistant.__init__ enters a PostgresSaver and runs its setup(); n is the
\* number of times the process has done so before
SetupsAfter(n) == n + 1

\* form() has returned: From and To are there, Assistant() is built (it
\* raises when neither connection string opens a saver or setup() fails, and
\* the request is answered 500), body is computed, and generate_response is
\* called.  From here to the return the handler awaits nothing that
\* suspends it.
Enter(r, init_ok) ==
  /\ pc[r] = "form"
  /\ CanRun(r)
  /\ loop[proc[r]] = 0
  /\ loop' = [loop EXCEPT ![proc[r]] = r]
  /\ IF init_ok
     THEN /\ setups' = [setups EXCEPT ![proc[r]] = SetupsAfter(setups[proc[r]])]
          /\ pc' = [pc EXCEPT ![r] = "gen"]
          /\ prompt' = [prompt EXCEPT ![r] = BodyOf(prompt[r], audio[r])]
          /\ UNCHANGED <<faults, err>>
     ELSE /\ faults < MaxFaults
          /\ faults' = faults + 1
          /\ pc' = [pc EXCEPT ![r] = "failed"]
          /\ err' = [err EXCEPT ![r] = "init"]
          /\ UNCHANGED <<setups, prompt>>
  /\ UNCHANGED <<store, hist, sent, proc, alive, thread, turn, mem,
                 node, steps, reply, base, invoked, lastStep, nturns, stored>>
  /\ UNCHANGED aggVars
  /\ UNCHANGED ended
  /\ UNCHANGED envVars
  /\ UNCHANGED funVars
  /\ UNCHANGED audio

(***************************************************************************)
(* Assistant.generate_response                                             *)
(***************************************************************************)
\* store the prompt in the messages table (a failure is printed and dropped),
\* build the input messages and the config
StorePrompt(r, dbok) ==
  /\ pc[r] = "gen"
  /\ CanRun(r)
  /\ dbok \/ faults < MaxFaults
  /\ faults' = IF dbok THEN faults ELSE faults + 1
  /\ hist' = IF dbok
             THEN Append(hist, HistRecord(thread[r], ToNumber, prompt[r], "user"))
             ELSE hist
  /\ pc' = [pc EXCEPT ![r] = "stream"]
  /\ node' = [node EXCEPT ![r] = "__start__"]
  /\ reply' = [reply EXCEPT ![r] = <<>>]
  /\ UNCHANGED <<store, sent, proc, alive, loop, thread, prompt, turn, mem,
                 steps, base, invoked, lastStep, nturns>>
  /\ stored' = [stored EXCEPT ![r] = dbok]
  /\ UNCHANGED err
  /\ UNCHANGED aggVars
  /\ UNCHANGED ended
  /\ UNCHANGED setups
  /\ UNCHANGED envVars
  /\ UNCHANGED funVars
  /\ UNCHANGED audio

InputSystemOnly(r) == <<Msg("system", StrC(SystemText), <<>>, "", turn[r])>>

\* one thread_id for every sender
ThreadIdShared(r) == "+54911"

\* config of graph.stream: the thread_id is the sender's number
ThreadId(r) == thread[r]

\* the system prompt kept once, in the checkpoint, and not submitted again
InputUserOnly(r) == <<Msg("user", StrC(prompt[r]), <<>>, "", turn[r])>>

InputMessages(r) ==
  <<Msg("system", StrC(SystemText), <<>>, "", turn[r]),
    Msg("user", StrC(prompt[r]), <<>>, "", turn[r])>>

\* graph.stream starts: the thread's checkpoint is loaded, the input is
\* appended to its messages and the input checkpoint is saved
StreamInput(r) ==
  /\ pc[r] = "stream"
  /\ node[r] = "__start__"
  /\ CanRun(r)
  /\ LET loaded == Load(store, ThreadId(r)).messages
         now == loaded \o InputMessages(r)
     IN /\ mem' = [mem EXCEPT ![r] = now]
        /\ base' = [base EXCEPT ![r] = Len(loaded)]
        /\ store' = StepCheckpoint(store, ThreadId(r), now)
        /\ node' = [node EXCEPT ![r] = NextNode("__start__", now[Len(now)])]
  /\ steps' = [steps EXCEPT ![r] = 0]
  /\ invoked' = [invoked EXCEPT ![r] = 0]
  /\ lastStep' = [lastStep EXCEPT ![r] = "input"]
  /\ UNCHANGED <<hist, sent, proc, alive, loop, pc, thread, prompt, turn,
                 reply, nturns, faults>>
  /\ UNCHANGED errVars
  /\ UNCHANGED aggVars
  /\ UNCHANGED ended
  /\ UNCHANGED setups
  /\ UNCHANGED envVars
  /\ UNCHANGED funVars
  /\ UNCHANGED audio

ChunkEvents(chunks) == [i \in 1..Len(chunks) |-> Event(chunks[i])]

MessageEvents(msgs) == [i \in 1..Len(msgs) |-> Event(msgs[i].content)]

\* the chat node: the model is invoked on the messages, its chunks are
\* streamed to the loop of generate_response, its message is appended, the
\* checkpoint of the super-step is saved
ChatStep(r, out) ==
  /\ pc[r] = "stream"
  /\ node[r] = "chat"
  /\ HasSteps(steps[r])
  /\ CanRun(r)
  /\ LET m == AIMessage(out, turn[r])
         now == Append(mem[r], m)
     IN /\ mem' = [mem EXCEPT ![r] = now]
        /\ store' = StepCheckpoint(store, ThreadId(r), now)
        /\ node' = [node EXCEPT ![r] = NextNode("chat", m)]
  /\ reply' = [reply EXCEPT ![r] = AcceptSeq(reply[r], ChunkEvents(out.chunks))]
  /\ steps' = [steps EXCEPT ![r] = steps[r] + 1]
  /\ invoked' = [invoked EXCEPT ![r] = invoked[r] + 1]
  /\ lastStep' = [lastStep EXCEPT ![r] = "chat"]
  /\ UNCHANGED <<hist, sent, proc, alive, loop, pc, thread, prompt, turn, base,
                 nturns, faults>>
  /\ UNCHANGED errVars
  /\ UNCHANGED aggVars
  /\ UNCHANGED ended
  /\ UNCHANGED setups
  /\ UNCHANGED envVars
  /\ UNCHANGED funVars
  /\ UNCHANGED audio

\* the tools node: one tool message per tool call of the latest message, each
\* streamed to the loop of generate_response; then the checkpoint is saved
ToolsStep(r, outs) ==
  /\ pc[r] = "stream"
  /\ node[r] = "tools"
  /\ HasSteps(steps[r])
  /\ CanRun(r)
  /\ LET latest == mem[r][Len(mem[r])]
         tms == ToolMessages(latest.tool_calls, outs, turn[r])
         now == mem[r] \o tms
     IN /\ DOMAIN outs = 1..Len(latest.tool_calls)
        /\ mem' = [mem EXCEPT ![r] = now]
        /\ store' = StepCheckpoint(store, ThreadId(r), now)
        /\ node' = [node EXCEPT ![r] = NextNode("tools", now[Len(now)])]
        /\ reply' = [reply EXCEPT ![r] = AcceptSeq(reply[r], MessageEvents(tms))]
  /\ steps' = [steps EXCEPT ![r] = steps[r] + 1]
  /\ lastStep' = [lastStep EXCEPT ![r] = "tools"]
  /\ UNCHANGED <<hist, sent, proc, alive, loop, pc, thread, prompt, turn, base,
                 invoked, nturns, faults>>
  /\ UNCHANGED errVars
  /\ UNCHANGED aggVars
  /\ UNCHANGED ended
  /\ UNCHANGED setups
  /\ UNCHANGED envVars
  /\ UNCHANGED funVars
  /\ UNCHANGED audio

\* a checkpoint operation of this turn can raise: the database is not
\* answering.  When the insert of the prompt has failed in this turn, it is
\* the same outage and is not counted again.
CanLoseDb(r) == faults < MaxFaults \/ ~stored[r]

\* graph.stream cannot load the thread's checkpoint or save the input
\* checkpoint: the exception leaves generate_response and receive_message
\* answers 500
LoadFails(r) ==
  /\ pc[r] = "stream"
  /\ node[r] = "__start__"
  /\ CanRun(r)
  /\ CanLoseDb(r)
  /\ faults' = IF stored[r] THEN faults + 1 ELSE faults
  /\ pc' = [pc EXCEPT ![r] = "failed"]
  /\ err' = [err EXCEPT ![r] = "checkpoint"]
  /\ UNCHANGED <<store, hist, sent, proc, alive, loop, thread, prompt, turn,
                 mem, node, steps, reply, base, invoked, lastStep, nturns,
                 stored>>
  /\ UNCHANGED aggVars
  /\ UNCHANGED ended
  /\ UNCHANGED setups
  /\ UNCHANGED envVars
  /\ UNCHANGED funVars
  /\ UNCHANGED audio

\* the chat node raises: the model invocation fails after k of its chunks
\* were streamed to the loop (cause "model"), or the checkpoint of the
\* super-step cannot be saved after all of them were (cause "checkpoint").
\* The step is not completed; the exception leaves generate_response.
ChatFails(r, out, k, cause) ==
  /\ pc[r] = "stream"
  /\ node[r] = "chat"
  /\ HasSteps(steps[r])
  /\ CanRun(r)
  /\ k \in 0..Len(out.chunks)
  /\ IF cause = "model"
     THEN /\ faults < MaxFaults
          /\ faults' = faults + 1
     ELSE /\ cause = "checkpoint"
          /\ k = Len(out.chunks)
          /\ CanLoseDb(r)
          /\ faults' = IF stored[r] THEN faults + 1 ELSE faults
  /\ reply' = [reply EXCEPT
                 ![r] = AcceptSeq(reply[r], ChunkEvents(SubSeq(out.chunks, 1, k)))]
  /\ invoked' = [invoked EXCEPT ![r] = invoked[r] + 1]
  /\ pc' = [pc EXCEPT ![r] = "failed"]
  /\ err' = [err EXCEPT ![r] = cause]
  /\ UNCHANGED <<store, hist, sent, proc, alive, loop, thread, prompt, turn,
                 mem, node, steps, base, lastStep, nturns, stored>>
  /\ UNCHANGED aggVars
  /\ UNCHANGED ended
  /\ UNCHANGED setups
  /\ UNCHANGED envVars
  /\ UNCHANGED funVars
  /\ UNCHANGED audio

\* the tools node has run and its tool messages were streamed to the loop,
\* but the checkpoint of the super-step cannot be saved
ToolsFails(r, outs) ==
  /\ pc[r] = "stream"
  /\ node[r] = "tools"
  /\ HasSteps(steps[r])
  /\ CanRun(r)
  /\ CanLoseDb(r)
  /\ faults' = IF stored[r] THEN faults + 1 ELSE faults
  /\ LET latest == mem[r][Len(mem[r])]
         tms == ToolMessages(latest.tool_calls, outs, turn[r])
     IN /\ DOMAIN outs = 1..Len(latest.tool_calls)
        /\ reply' = [reply EXCEPT ![r] = AcceptSeq(reply[r], MessageEvents(tms))]
  /\ pc' = [pc EXCEPT ![r] = "failed"]
  /\ err' = [err EXCEPT ![r] = "checkpoint"]
  /\ UNCHANGED <<store, hist, sent, proc, alive, loop, thread, prompt, turn,
                 mem, node, steps, base, invoked, lastStep, nturns, stored>>
  /\ UNCHANGED aggVars
  /\ UNCHANGED ended
  /\ UNCHANGED setups
  /\ UNCHANGED envVars
  /\ UNCHANGED funVars
  /\ UNCHANGED audio

\* a node is due but the stream call has run its super-steps: the library
\* raises out of graph.stream, generate_response lets it through, and
\* receive_message answers 500
OutOfSteps(r) ==
  /\ pc[r] = "stream"
  /\ node[r] \in {"chat", "tools"}
  /\ ~HasSteps(steps[r])
  /\ CanRun(r)
  /\ pc' = [pc EXCEPT ![r] = "failed"]
  /\ UNCHANGED <<store, hist, sent, proc, alive, loop, thread, prompt, turn,
                 mem, node, steps, reply, base, invoked, lastStep, nturns,
                 faults>>
  /\ err' = [err EXCEPT ![r] = "recursion"]
  /\ UNCHANGED stored
  /\ UNCHANGED aggVars
  /\ UNCHANGED ended
  /\ UNCHANGED setups
  /\ UNCHANGED envVars
  /\ UNCHANGED funVars
  /\ UNCHANGED audio

\* a try/finally around the loop would also get here after a raise
StreamEndedOrRaised(r) ==
  \/ pc[r] = "stream" /\ node[r] = END
  \/ pc[r] = "failed" /\ err[r] \in {"model", "checkpoint", "recursion"}

\* the send placed inside the loop, after the first steps
StreamEndedOrMidway(r) == pc[r] = "stream" /\ lastStep[r] \in {"chat", "tools"}

\* the for loop over graph.stream is left only when the stream is exhausted;
\* nothing around it catches what the stream raises
StreamEnded(r) == pc[r] = "stream" /\ node[r] = END

\* the stream is exhausted: send the reply through Twilio when it is not
\* empty, then store it in the messages table
Finish(r, twilio_ok, dbok) ==
  /\ StreamEnded(r)
  /\ CanRun(r)
  /\ IF reply[r] = <<>>
     THEN /\ twilio_ok /\ dbok
          /\ pc' = [pc EXCEPT ![r] = "done"]
          /\ UNCHANGED <<sent, hist, faults>>
     ELSE IF twilio_ok
     THEN /\ dbok \/ faults < MaxFaults
          /\ faults' = IF dbok THEN faults ELSE faults + 1
          /\ sent' = Append(sent, [to |-> thread[r], body |-> reply[r],
                                   turn |-> turn[r]])
          /\ hist' = IF dbok
                     THEN Append(hist, HistRecord(ToNumber, thread[r], reply[r], "ai"))
                     ELSE hist
          /\ pc' = [pc EXCEPT ![r] = "done"]
     ELSE /\ dbok /\ faults < MaxFaults
          /\ faults' = faults + 1
          /\ pc' = [pc EXCEPT ![r] = "failed"]
          /\ UNCHANGED <<sent, hist>>
  /\ UNCHANGED <<store, proc, alive, loop, thread, prompt, turn, mem, node,
                 steps, reply, base, invoked, lastStep, nturns>>
  /\ err' = [err EXCEPT ![r] = IF reply[r] # <<>> /\ ~twilio_ok THEN "send" ELSE err[r]]
  /\ UNCHANGED stored
  /\ UNCHANGED aggVars
  /\ UNCHANGED ended
  /\ UNCHANGED setups
  /\ UNCHANGED envVars
  /\ UNCHANGED funVars
  /\ UNCHANGED audio

\* the answer of receive_message: {"status": "Message sent"} or the
\* HTTPException raised in its except branch (0: no answer yet)
Status(r) ==
  CASE pc[r] = "done" -> 200
    [] pc[r] = "failed" -> 500
    [] OTHER -> 0

\* the handler returns its answer (200 or 500) and the coroutine ends
Return(r) ==
  /\ pc[r] \in {"done", "failed"}
  /\ CanRun(r)
  /\ loop' = [loop EXCEPT ![proc[r]] = 0]
  /\ pc' = [pc EXCEPT ![r] = "idle"]
  /\ thread' = [thread EXCEPT ![r] = "+54911"]
  /\ prompt' = [prompt EXCEPT ![r] = <<>>]
  /\ turn' = [turn EXCEPT ![r] = 0]
  /\ mem' = [mem EXCEPT ![r] = <<>>]
  /\ node' = [node EXCEPT ![r] = END]
  /\ steps' = [steps EXCEPT ![r] = 0]
  /\ reply' = [reply EXCEPT ![r] = <<>>]
  /\ base' = [base EXCEPT ![r] = 0]
  /\ invoked' = [invoked EXCEPT ![r] = 0]
  /\ lastStep' = [lastStep EXCEPT ![r] = "none"]
  /\ UNCHANGED <<store, hist, sent, proc, alive, nturns, faults>>
  /\ err' = [err EXCEPT ![r] = "none"]
  /\ stored' = [stored EXCEPT ![r] = FALSE]
  /\ audio' = [audio EXCEPT ![r] = "none"]
  /\ ended' = ended \cup {[turn |-> turn[r], thread |-> thread[r],
                            status |-> Status(r)]}
  /\ UNCHANGED aggVars
  /\ UNCHANGED setups
  /\ UNCHANGED envVars
  /\ UNCHANGED funVars

\* the server process dies while a turn of it is under way; what its requests
\* held in memory is gone (mem is kept to say what was lost)
Crash(p) ==
  /\ alive[p]
  /\ faults < MaxFaults
  /\ faults' = faults + 1
  /\ \E r \in Reqs : proc[r] = p /\ pc[r] \in {"gen", "stream"}
  /\ alive' = [alive EXCEPT ![p] = FALSE]
  /\ pc' = [r \in Reqs |->
              IF proc[r] = p /\ pc[r] # "idle" THEN "crashed" ELSE pc[r]]
  /\ UNCHANGED <<store, hist, sent, proc, loop, thread, prompt, turn, mem,
                 node, steps, reply, base, invoked, lastStep, nturns>>
  /\ UNCHANGED errVars
  /\ UNCHANGED aggVars
  /\ UNCHANGED ended
  /\ UNCHANGED setups
  /\ UNCHANGED envVars
  /\ UNCHANGED funVars
  /\ UNCHANGED audio

Next ==
  \/ \E r \in Reqs, t \in Threads, b \in Bodies, a \in AudioKinds :
       Receive(r, t, b, a)
  \/ \E r \in Reqs, init_ok \in BOOLEAN : Enter(r, init_ok)
  \/ \E r \in Reqs, dbok \in BOOLEAN : StorePrompt(r, dbok)
  \/ \E r \in Reqs : StreamInput(r)
  \/ \E r \in Reqs, out \in AgentOutputs : ChatStep(r, out)
  \/ \E r \in Reqs, outs \in ToolOutcomes :
       ToolsStep(r, outs)
  \/ \E r \in Reqs : OutOfSteps(r)
  \/ \E r \in Reqs : LoadFails(r)
  \/ \E r \in Reqs, out \in AgentOutputs, k \in 0..2,
          cause \in {"model", "checkpoint"} : ChatFails(r, out, k, cause)
  \/ \E r \in Reqs, outs \in ToolOutcomes :
       ToolsFails(r, outs)
  \/ \E r \in Reqs, tw \in BOOLEAN, dbok \in BOOLEAN : Finish(r, tw, dbok)
  \/ \E r \in Reqs : Return(r)
  \/ \E p \in Procs : Crash(p)

Spec == Init /\ [][Next]_vars

SpecWorkers == InitWorkers /\ [][Next]_vars

SpecAudio == InitAudio /\ [][Next]_vars

(***************************************************************************)
(* The aggregation loop of generate_response taken alone, on any stream.   *)
(***************************************************************************)
ContentSamples ==
  {NoneC, StrC(<<>>), StrC(<<"a">>), StrC(<<"{", "a">>), ListC(<<>>),
   ListC(<<OtherBlock>>), ListC(<<DictTextBlock(<<"b">>), OtherBlock>>),
   ListC(<<OtherBlock, DictTextBlock(<<"{">>), StrBlock(<<"c">>)>>),
   ListC(<<ObjTextBlock(<<"d">>), DictTextBlock(<<"{">>)>>)}

EventSamples ==
  {Event(c) : c \in ContentSamples}
    \cup {[tuple2 |-> FALSE, has_content |-> TRUE, content |-> StrC(<<"a">>)],
          [tuple2 |-> TRUE, has_content |-> FALSE, content |-> NoneC]}

InitAgg ==
  /\ InitCommon
  /\ InitFun
  /\ proc = [r \in Reqs |-> 1]
  /\ media = {"none"}
  /\ events \in UNION {[1..n -> EventSamples] : n \in 0..MaxEvents}

\* one iteration of the for loop
AggStep ==
  /\ pos < Len(events)
  /\ buffer' = Accept(buffer, events[pos + 1])
  /\ pos' = pos + 1
  /\ UNCHANGED <<events>>
  /\ UNCHANGED reqVars
  /\ UNCHANGED sysVars
  /\ UNCHANGED envVars
  /\ UNCHANGED funVars

NextAgg == AggStep

SpecAgg == InitAgg /\ [][NextAgg]_vars

(***************************************************************************)
(* Assistant._load_conversation_history taken alone, on any table.         *)
(***************************************************************************)
RECURSIVE Reverse(_)
Reverse(q) == IF q = <<>> THEN <<>> ELSE Append(Reverse(Tail(q)), Head(q))

Min(x, y) == IF x < y THEN x ELSE y

\* the filter of the query: rows between the two numbers, either direction
Between(row, a, b) ==
  \/ row.from = a /\ row.to = b
  \/ row.from = b /\ row.to = a

\* the query: filter, ORDER BY id DESC, LIMIT limit (table is in id order)
QueryRows(tbl, a, b, limit) ==
  LET desc == Reverse(SelectSeq(tbl, LAMBDA row : Between(row, a, b)))
  IN SubSeq(desc, 1, Min(limit, Len(desc)))

\* the role of a stored row
RoleOf(row) == IF row.message_type = "user" THEN "user" ELSE "assistant"

Formatted(rows) ==
  [i \in 1..Len(rows) |-> [role |-> RoleOf(rows[i]), content |-> rows[i].content]]

\* without messages.reverse()
LoadHistoryNoReverse(tbl, a, b, limit, dbok) ==
  IF dbok THEN Formatted(QueryRows(tbl, a, b, limit)) ELSE <<>>

\* _load_conversation_history: the rows of the query, reversed and formatted;
\* [] when the database raises
LoadConversationHistory(tbl, a, b, limit, dbok) ==
  IF dbok THEN Formatted(Reverse(QueryRows(tbl, a, b, limit))) ELSE <<>>

RowSamples ==
  {HistRecord(ft[1], ft[2], c, ty) :
     ft \in {<<"+54911", ToNumber>>, <<ToNumber, "+54911">>},
     c \in {<<"x">>, <<"y">>}, ty \in {"user", "ai"}}
    \cup {HistRecord("+54911", ToNumber, <<"z">>, "tool"),
          HistRecord("+54922", ToNumber, <<"w">>, "user"),
          HistRecord(ToNumber, "+54922", <<"w">>, "ai")}

InitHist ==
  /\ InitCommon
  /\ proc = [r \in Reqs |-> 1]
  /\ events = <<>>
  /\ media = {"none"}
  /\ table \in UNION {[1..n -> RowSamples] : n \in 0..MaxRows}
  /\ hq \in [a : {"+54911", ToNumber}, b : {"+54911", ToNumber},
              limit : 0..MaxLimit, dbok : BOOLEAN]
  /\ hq.a # hq.b
  /\ hres = [done |-> FALSE, rows |-> <<>>]
  /\ cal = {}
  /\ cq = [start_time |-> 1, api_ok |-> TRUE]
  /\ cres = [done |-> FALSE, outcome |-> "none", deleted |-> {}]
  /\ cenv = [url_ok |-> TRUE, dsn_ok |-> TRUE, setup_ok |-> TRUE,
             client_ok |-> TRUE, file_ok |-> TRUE]
  /\ ctor = CtorStart

\* one call of the loader
LoadHistoryStep ==
  /\ ~hres.done
  /\ hres' = [done |-> TRUE,
              rows |-> LoadConversationHistory(table, hq.a, hq.b, hq.limit, hq.dbok)]
  /\ UNCHANGED <<table, hq>>
  /\ UNCHANGED calVars
  /\ UNCHANGED ctorVars
  /\ UNCHANGED reqVars
  /\ UNCHANGED sysVars
  /\ UNCHANGED envVars
  /\ UNCHANGED aggVars

NextHist == LoadHistoryStep

SpecHist == InitHist /\ [][NextHist]_vars

(***************************************************************************)
(* tools.calendar.delete_calendar_event taken alone, on any calendar.      *)
(***************************************************************************)
\* an event of the calendar: it starts at start and ends at end
CalEvent(s, e) == [start |-> s, end |-> e]

CalEventSamples ==
  {ev \in {CalEvent(s, e) : s \in 1..MaxTime, e \in 2..(MaxTime + 1)} :
     ev.start < ev.end}

\* events().list(timeMin=start_time, singleEvents=True): timeMin is the
\* API's lower bound, exclusive, on the END time of the events listed
ListFrom(c, time_min) == {ev \in c : ev.end > time_min}

\* items[0] under orderBy="startTime": an event of the list that no other
\* starts before (the API does not order events that start together)
FirstByStart(items) ==
  {ev \in items : \A other \in items : ev.start <= other.start}

InitCal ==
  /\ InitCommon
  /\ proc = [r \in Reqs |-> 1]
  /\ events = <<>>
  /\ media = {"none"}
  /\ table = <<>>
  /\ hq = [a |-> ToNumber, b |-> ToNumber, limit |-> 0, dbok |-> TRUE]
  /\ hres = [done |-> FALSE, rows |-> <<>>]
  /\ cal \in SUBSET CalEventSamples
  /\ cq \in [start_time : 1..MaxTime, api_ok : BOOLEAN]
  /\ cres = [done |-> FALSE, outcome |-> "none", deleted |-> {}]
  /\ cenv = [url_ok |-> TRUE, dsn_ok |-> TRUE, setup_ok |-> TRUE,
             client_ok |-> TRUE, file_ok |-> TRUE]
  /\ ctor = CtorStart

\* one call of delete_calendar_event(start_time): RuntimeError when the API
\* answers with an HttpError, ValueError when the list is empty, else the
\* first listed event is deleted
DeleteCalendarEvent ==
  /\ ~cres.done
  /\ IF ~cq.api_ok
     THEN /\ cres' = [done |-> TRUE, outcome |-> "api_error", deleted |-> {}]
          /\ UNCHANGED cal
     ELSE IF ListFrom(cal, cq.start_time) = {}
     THEN /\ cres' = [done |-> TRUE, outcome |-> "no_event", deleted |-> {}]
          /\ UNCHANGED cal
     ELSE \E ev \in FirstByStart(ListFrom(cal, cq.start_time)) :
            /\ cal' = cal \ {ev}
            /\ cres' = [done |-> TRUE, outcome |-> "deleted", deleted |-> {ev}]
  /\ UNCHANGED cq
  /\ UNCHANGED histVars
  /\ UNCHANGED ctorVars
  /\ UNCHANGED reqVars
  /\ UNCHANGED sysVars
  /\ UNCHANGED envVars
  /\ UNCHANGED aggVars

NextCal == DeleteCalendarEvent

SpecCal == InitCal /\ [][NextCal]_vars

(***************************************************************************)
(* Assistant.__init__ taken alone: the checkpointer, then the rest.        *)
(***************************************************************************)
\* the DSN tried before the URL
CandidatesDsnFirst == <<"dsn", "url">>

\* for candidate in (connection_string, dsn_fallback)
Candidates == <<"url", "dsn">>

\* whether PostgresSaver.from_conn_string and enter_context succeed on it
Connects(c) == IF c = "url" THEN cenv.url_ok ELSE cenv.dsn_ok

InitCtor ==
  /\ InitCommon
  /\ proc = [r \in Reqs |-> 1]
  /\ events = <<>>
  /\ media = {"none"}
  /\ table = <<>>
  /\ hq = [a |-> ToNumber, b |-> ToNumber, limit |-> 0, dbok |-> TRUE]
  /\ hres = [done |-> FALSE, rows |-> <<>>]
  /\ cal = {}
  /\ cq = [start_time |-> 1, api_ok |-> TRUE]
  /\ cres = [done |-> FALSE, outcome |-> "none", deleted |-> {}]
  /\ cenv \in [url_ok : BOOLEAN, dsn_ok : BOOLEAN, setup_ok : BOOLEAN,
                client_ok : BOOLEAN, file_ok : BOOLEAN]
  /\ ctor = CtorStart

CtorFrame ==
  /\ UNCHANGED cenv
  /\ UNCHANGED histVars
  /\ UNCHANGED calVars
  /\ UNCHANGED reqVars
  /\ UNCHANGED sysVars
  /\ UNCHANGED envVars
  /\ UNCHANGED aggVars

\* one iteration of the loop: the next candidate is tried; on success it is
\* kept and the loop is left (break), on failure the error is remembered
TryCandidate ==
  /\ ctor.pc = "connect"
  /\ LET i == Len(ctor.tried) + 1
         c == Candidates[i]
     IN IF Connects(c)
        THEN ctor' = [ctor EXCEPT !.tried = Append(@, c), !.memory = c,
                                  !.pc = "check"]
        ELSE ctor' = [ctor EXCEPT !.tried = Append(@, c), !.last_err = c,
                                  !.pc = IF i = Len(Candidates) THEN "check"
                                         ELSE "connect"]
  /\ CtorFrame

\* if self.memory is None: raise RuntimeError
CheckMemory ==
  /\ ctor.pc = "check"
  /\ IF ctor.memory = "none"
     THEN ctor' = [ctor EXCEPT !.pc = "raised", !.raised = "RuntimeError"]
     ELSE ctor' = [ctor EXCEPT !.pc = "setup"]
  /\ CtorFrame

\* self.memory.setup()
SetupMemory ==
  /\ ctor.pc = "setup"
  /\ IF cenv.setup_ok
     THEN ctor' = [ctor EXCEPT !.pc = "client", !.setup_done = TRUE]
     ELSE ctor' = [ctor EXCEPT !.pc = "raised", !.raised = "setup"]
  /\ CtorFrame

\* self.twilio_client = Client(), then the instructions file is read
ClientAndPrompt ==
  /\ ctor.pc = "client"
  /\ IF ~cenv.client_ok
     THEN ctor' = [ctor EXCEPT !.pc = "raised", !.raised = "client"]
     ELSE IF ~cenv.file_ok
     THEN ctor' = [ctor EXCEPT !.pc = "raised", !.raised = "file"]
     ELSE ctor' = [ctor EXCEPT !.pc = "compile"]
  /\ CtorFrame

\* the chat node and its edges are added and the graph is compiled with
\* checkpointer=self.memory: the Assistant exists
CompileGraph ==
  /\ ctor.pc = "compile"
  /\ ctor' = [ctor EXCEPT !.pc = "built", !.compiled = TRUE]
  /\ CtorFrame

NextCtor ==
  \/ TryCandidate
  \/ CheckMemory
  \/ SetupMemory
  \/ ClientAndPrompt
  \/ CompileGraph

SpecCtor == InitCtor /\ [][NextCtor]_vars

(***************************************************************************)
(* Helpers of the properties.                                              *)
(***************************************************************************)
IsSubstring(a, b) ==
  \E i \in 0..(Len(b) - Len(a)) : SubSeq(b, i + 1, i + Len(a)) = a

RECURSIVE Flatten(_)
Flatten(ss) == IF ss = <<>> THEN <<>> ELSE Head(ss) \o Flatten(Tail(ss))

Last(log) == log[Len(log)]

\* the messages a turn added to what it loaded
NewMessages(r) == SubSeq(mem[r], base[r] + 1, Len(mem[r]))

\* index of the latest assistant message of a log (0: none)
LastAssistantIdx(log) ==
  IF \E i \in 1..Len(log) : log[i].role = "assistant"
  THEN CHOOSE i \in 1..Len(log) :
         /\ log[i].role = "assistant"
         /\ \A j \in (i + 1)..Len(log) : log[j].role # "assistant"
  ELSE 0

IsTerminalAssistant(m) == m.role = "assistant" /\ m.tool_calls = <<>>

(***************************************************************************)
(* C1                                                                      *)
(***************************************************************************)
RouteSamples ==
  {Msg(role, StrC(<<>>), tc, "", 0) :
     role \in {"system", "user", "assistant", "tool"},
     tc \in {<<>>, <<ToolCall("c1", "get_calendar_events")>>}}

\* C1: after every Chat step the node that runs next is tools exactly when
\* the latest message is an assistant message with a non-empty tool_calls,
\* and otherwise the graph ends; the same holds of the routing of any message
C1_RouteAfterChat ==
  /\ \A r \in Reqs :
       lastStep[r] = "chat" =>
         /\ node[r] \in {"tools", END}
         /\ node[r] = "tools" <=>
              (Last(mem[r]).role = "assistant" /\ Len(Last(mem[r]).tool_calls) > 0)
  /\ \A m \in RouteSamples :
       /\ NextNode("chat", m) \in {"tools", END}
       /\ NextNode("chat", m) = "tools" <=>
            (m.role = "assistant" /\ Len(m.tool_calls) > 0)

C1_Witness ==
  \E r \in Reqs :
    lastStep[r] = "chat" /\ node[r] = "tools" /\ Len(Last(mem[r]).tool_calls) = 3

(***************************************************************************)
(* C2                                                                      *)
(***************************************************************************)
\* C2: after a Tools step the log ends with exactly one tool message per
\* ToolCall of the latest assistant message, in the order of the ToolCalls,
\* the i-th carrying the id of the i-th ToolCall, whichever calls failed
C2_ToolMessagesInOrder ==
  \A r \in Reqs :
    lastStep[r] = "tools" =>
      LET k == LastAssistantIdx(mem[r])
          calls == mem[r][k].tool_calls
      IN /\ k > base[r]
         /\ Len(mem[r]) = k + Len(calls)
         /\ \A i \in 1..Len(calls) :
              /\ mem[r][k + i].role = "tool"
              /\ mem[r][k + i].tool_call_id = calls[i].id

C2_Witness ==
  \E r \in Reqs :
    /\ lastStep[r] = "tools"
    /\ Len(mem[r][LastAssistantIdx(mem[r])].tool_calls) = 3
    /\ mem[r][Len(mem[r]) - 2].content = StrC(ToolErrorText)
    /\ mem[r][Len(mem[r])].tool_call_id = "c1"

(***************************************************************************)
(* C3                                                                      *)
(***************************************************************************)
\* every answer of the model in this turn carried tool calls
AllToolCalls(r) ==
  /\ invoked[r] > 0
  /\ \A i \in 1..Len(NewMessages(r)) :
       NewMessages(r)[i].role = "assistant" => NewMessages(r)[i].tool_calls # <<>>

OfTurn(log, k) == SelectSeq(log, LAMBDA m : m.by = k)

\* the messages of one turn lie together in the log
NotInterleaved(log) ==
  \A i, j, k \in 1..Len(log) :
    (i < j /\ j < k /\ log[i].by = log[k].by) => log[j].by = log[i].by

\* C4: in the checkpointed log of every thread the messages of a turn are
\* never interleaved with those of another turn, and every message a turn
\* has appended in a completed step is in the log
C4_TurnsSerialized ==
  /\ \A t \in Threads : NotInterleaved(store[t].messages)
  /\ \A r \in Reqs :
       (pc[r] \in {"stream", "done", "failed"} /\ lastStep[r] # "none") =>
         OfTurn(store[thread[r]].messages, turn[r]) = OfTurn(mem[r], turn[r])

(***************************************************************************)
(* C5                                                                      *)
(***************************************************************************)
IsTextBlock(b) == b.kind \in {"dict_text", "str", "obj_text"}

\* the text of an event: of list content, its text fragments in order
EventText(ev) ==
  IF ~ev.tuple2 \/ ~ev.has_content THEN <<>>
  ELSE IF ev.content.kind = "list"
  THEN LET texts == SelectSeq(ev.content.items, IsTextBlock)
       IN Flatten([i \in 1..Len(texts) |-> texts[i].text])
  ELSE IF ev.content.kind = "str" THEN ev.content.s
  ELSE <<>>

Accepted(ev) == EventText(ev) # <<>> /\ EventText(ev)[1] # "{"

ExpectedReply(evs) ==
  LET kept == SelectSeq(evs, Accepted)
  IN Flatten([i \in 1..Len(kept) |-> EventText(kept[i])])

\* C5: after each iteration of the loop final_response is the in-order
\* concatenation of the texts of the events consumed so far whose text is
\* not empty and does not begin with {; so the reply is that of all events
C5_ReplyIsConcatenation ==
  buffer = ExpectedReply(SubSeq(events, 1, pos))

C5_Witness ==
  /\ pos = Len(events)
  /\ pos = 3
  /\ Accepted(events[1])
  /\ events[2].content.kind = "list"
  /\ EventText(events[2]) # <<>>
  /\ ~Accepted(events[2])
  /\ Accepted(events[3])
  /\ events[3].content.kind = "list"
  /\ buffer = EventText(events[1]) \o EventText(events[3])

(***************************************************************************)
(* C6                                                                      *)
(***************************************************************************)
\* C6: the content of a tool message produced in a turn never appears in the
\* reply of that turn
C6_NoToolTextInReply ==
  \A r \in Reqs :
    \A i \in 1..Len(NewMessages(r)) :
      NewMessages(r)[i].role = "tool" =>
        ~IsSubstring(ExtractText(NewMessages(r)[i].content), reply[r])

(***************************************************************************)
(* C7                                                                      *)
(***************************************************************************)
\* C7: between the steps of a turn, and after a crash of its process, the
\* checkpoint of the thread holds exactly the messages of the steps the turn
\* has completed (the input, every Chat step, every Tools step)
C7_CheckpointAfterEveryStep ==
  \A r \in Reqs :
    (pc[r] \in {"stream", "done", "failed", "crashed"} /\ lastStep[r] # "none") =>
      /\ Load(store, thread[r]).saved
      /\ Load(store, thread[r]).messages = mem[r]

C7_Witness ==
  \E r \in Reqs :
    /\ pc[r] = "crashed"
    /\ lastStep[r] = "tools"
    /\ node[r] = "chat"
    /\ Len(NewMessages(r)) = 6

(***************************************************************************)
(* C9                                                                      *)
(***************************************************************************)
Assistants(log) == SelectSeq(log, LAMBDA m : m.role = "assistant")

\* a finished turn: one assistant message with a single ToolCall, its tool
\* message, then a terminal assistant message
OneToolCallTurn(r) ==
  /\ pc[r] = "done"
  /\ Len(Assistants(NewMessages(r))) = 2
  /\ Len(Assistants(NewMessages(r))[1].tool_calls) = 1
  /\ IsTerminalAssistant(Last(mem[r]))

\* C9: such a turn adds exactly 4 messages to the checkpoint of the thread
\* and its reply is the text of the terminal assistant message
C9_FourMessagesAndSummary ==
  \A r \in Reqs :
    OneToolCallTurn(r) =>
      /\ Len(Load(store, thread[r]).messages) - base[r] = 4
      /\ reply[r] = ExtractText(Last(mem[r]).content)

(***************************************************************************)
(* C10                                                                     *)
(***************************************************************************)
\* the turn has started its stream from a checkpoint whose latest message is
\* a terminal assistant message
StartedFromTerminal(r) ==
  /\ lastStep[r] # "none"
  /\ base[r] > 0
  /\ IsTerminalAssistant(mem[r][base[r]])

\* C10 as claimed: such a turn invokes the model zero times and appends no
\* message
C10_ZeroCycles ==
  \A r \in Reqs :
    StartedFromTerminal(r) => (invoked[r] = 0 /\ Len(mem[r]) = base[r])

\* C10 amended: such a turn appends its system and user messages, runs the
\* chat node first, and its stream ends only after the model was invoked and
\* an assistant message was appended
C10_TurnAlwaysChats ==
  \A r \in Reqs :
    StartedFromTerminal(r) =>
      /\ Len(mem[r]) >= base[r] + 2
      /\ mem[r][base[r] + 1].role = "system"
      /\ mem[r][base[r] + 2].role = "user"
      /\ lastStep[r] = "input" => node[r] = "chat"
      /\ node[r] = END =>
           /\ invoked[r] >= 1
           /\ Len(mem[r]) >= base[r] + 3
           /\ mem[r][base[r] + 3].role = "assistant"

C10_Witness ==
  \E r \in Reqs :
    StartedFromTerminal(r) /\ pc[r] = "done" /\ invoked[r] = 1 /\ turn[r] = 2

(***************************************************************************)
(* C11                                                                     *)
(***************************************************************************)
SentOf(k) == SelectSeq(sent, LAMBDA m : m.turn = k)

\* C11: when the model invocation, a graph step (the recursion limit) or a
\* checkpoint operation has raised in a turn, Twilio was not called for that
\* turn, whatever the loop had aggregated, and the caller is answered 500
C11_NoReplyOnError ==
  \A r \in Reqs :
    err[r] \in {"model", "checkpoint", "recursion"} =>
      /\ SentOf(turn[r]) = <<>>
      /\ pc[r] = "failed"
      /\ Status(r) = 500

C11_Witness ==
  \E r \in Reqs :
    /\ err[r] = "model"
    /\ reply[r] = <<"h">>
    /\ invoked[r] = 1
    /\ Status(r) = 500

(***************************************************************************)
(* C12                                                                     *)
(***************************************************************************)
\* the turn of request r has run the engine on its prompt
RanEngineOn(r, text) ==
  /\ lastStep[r] # "none"
  /\ mem[r][base[r] + 2] = Msg("user", StrC(text), <<>>, "", turn[r])

\* the transcription half of C12: audio that cannot be downloaded or
\* transcribed gives a placeholder prompt, and the turn runs on it
C12_TranscriptionDegrades ==
  \A r \in Reqs :
    (/\ audio[r] \in {"empty", "download_fails"}
     /\ pc[r] \in {"gen", "stream", "done", "failed"}) =>
      /\ prompt[r] = (IF audio[r] = "empty" THEN UnintelligibleText
                      ELSE ErrorAudioText)
      /\ err[r] # "transcription"
      /\ pc[r] = "done" => RanEngineOn(r, prompt[r])

\* C12: a failed transcription or download degrades to a placeholder prompt
\* that the turn runs on, and a failed send still lets the turn complete:
\* the caller is answered normally
C12_CollaboratorFailuresRecovered ==
  /\ C12_TranscriptionDegrades
  /\ \A r \in Reqs : err[r] = "send" => (pc[r] = "done" /\ Status(r) = 200)

C12_TranscriptionWitness ==
  \E r \in Reqs :
    /\ audio[r] = "download_fails"
    /\ pc[r] = "done"
    /\ RanEngineOn(r, ErrorAudioText)
    /\ SentOf(turn[r]) # <<>>

(***************************************************************************)
(* C13                                                                     *)
(***************************************************************************)
\* the messages table holds a row of the inbound message of request r
InboundRecorded(r) ==
  \E i \in 1..Len(hist) :
    hist[i] = HistRecord(thread[r], ToNumber, prompt[r], "user")

\* C13: when a checkpoint load or save has failed in a turn, the caller is
\* answered with the error, Twilio was not called for the turn, and the
\* messages table holds a row of the inbound user message
C13_InboundKeptOnPersistenceError ==
  \A r \in Reqs :
    err[r] = "checkpoint" =>
      /\ Status(r) = 500
      /\ SentOf(turn[r]) = <<>>
      /\ InboundRecorded(r)

\* the part of C13 that the code keeps: the error is surfaced, nothing is sent
C13_SurfacedAndSilent ==
  \A r \in Reqs :
    err[r] = "checkpoint" => (Status(r) = 500 /\ SentOf(turn[r]) = <<>>)

(***************************************************************************)
(* C14                                                                     *)
(***************************************************************************)
\* C14: in every Tools step each ToolCall gets its tool message: an error
\* content when its name is not registered or its tool raised, the tool's
\* payload otherwise; the step handles every call whatever the earlier ones
\* did, raises nothing, and the turn goes on with Chat
C14_ToolErrorsRecovered ==
  [][\A r \in Reqs, outs \in ToolOutcomes :
       ToolsStep(r, outs) =>
         LET calls == Last(mem[r]).tool_calls
             n == Len(mem[r])
         IN /\ pc'[r] = "stream"
            /\ err'[r] = "none"
            /\ node'[r] = "chat"
            /\ Len(mem'[r]) = n + Len(calls)
            /\ \A i \in 1..Len(calls) :
                 /\ mem'[r][n + i].role = "tool"
                 /\ mem'[r][n + i].tool_call_id = calls[i].id
                 /\ mem'[r][n + i].content =
                      StrC(IF calls[i].name \notin RegisteredTools
                           THEN UnknownToolText
                           ELSE IF outs[i] = "raise" THEN ToolErrorText
                           ELSE ToolPayload(calls[i].name).text)]_vars

C14_Witness ==
  \E r \in Reqs :
    /\ lastStep[r] = "tools"
    /\ pc[r] = "stream"
    /\ node[r] = "chat"
    /\ Len(mem[r]) >= 4
    /\ mem[r][Len(mem[r]) - 3].tool_calls =
         <<ToolCall("c2", "delete_calendar_event"), ToolCall("c3", "no_such_tool"),
           ToolCall("c1", "no_such_tool")>>
    /\ mem[r][Len(mem[r]) - 2].content = StrC(ToolErrorText)
    /\ mem[r][Len(mem[r]) - 1].content = StrC(UnknownToolText)
    /\ mem[r][Len(mem[r])].content = StrC(UnknownToolText)

(***************************************************************************)
(* C15                                                                     *)
(***************************************************************************)
\* C15: a process opens and sets up its checkpoint store at most once,
\* whatever the number of requests it handles; a turn loads or saves only
\* after the set-up; and when the set-up fails no turn is run
C15_InitOncePerProcess ==
  /\ \A p \in Procs : setups[p] <= 1
  /\ \A r \in Reqs :
       /\ pc[r] \in {"gen", "stream", "done"} => setups[proc[r]] >= 1
       /\ err[r] = "init" =>
            (lastStep[r] = "none" /\ ~stored[r] /\ Status(r) = 500)

\* the parts of C15 that the code keeps
C15_InitBeforeUse ==
  \A r \in Reqs :
    /\ pc[r] \in {"gen", "stream", "done"} => setups[proc[r]] >= 1
    /\ err[r] = "init" =>
         (lastStep[r] = "none" /\ ~stored[r] /\ Status(r) = 500)

(***************************************************************************)
(* C16                                                                     *)
(***************************************************************************)
\* the rows of the table exchanged between a and b, in id order
Exchanged(tbl, a, b) ==
  SelectSeq(tbl, LAMBDA row : {row.from, row.to} = {a, b})

\* the last k members of a sequence
LastK(q, k) == SubSeq(q, Len(q) - k + 1, Len(q))

\* C16: when the database answers, the loader returns min(N, total) entries,
\* they are the most recent rows exchanged between a and b, oldest first,
\* each with its content, role user for type 'user' and role assistant for
\* any other type
C16_HistoryLoader ==
  (hres.done /\ hq.dbok) =>
    LET all == Exchanged(table, hq.a, hq.b)
        k == IF hq.limit < Len(all) THEN hq.limit ELSE Len(all)
        want == LastK(all, k)
    IN /\ Len(hres.rows) = k
       /\ \A i \in 1..k :
            /\ hres.rows[i].content # <<"w">>
            /\ hres.rows[i].content = want[i].content
            /\ hres.rows[i].role =
                 (IF want[i].message_type = "user" THEN "user" ELSE "assistant")

C16_Witness ==
  /\ hres.done
  /\ hq.dbok
  /\ hq.limit = 2
  /\ Len(table) = 3
  /\ Len(Exchanged(table, hq.a, hq.b)) = 3
  /\ table[1].content # table[2].content
  /\ table[2].content # table[3].content
  /\ table[3].message_type = "tool"
  /\ hres.rows = <<[role |-> RoleOf(table[2]), content |-> table[2].content],
                   [role |-> "assistant", content |-> <<"z">>]>>

(***************************************************************************)
(* C17                                                                     *)
(***************************************************************************)
\* index of the nearest assistant message before position i (0: none)
AssistantBefore(log, i) ==
  IF \E j \in 1..(i - 1) : log[j].role = "assistant"
  THEN CHOOSE j \in 1..(i - 1) :
         /\ log[j].role = "assistant"
         /\ \A k \in (j + 1)..(i - 1) : log[k].role # "assistant"
  ELSE 0

\* every tool message answers a ToolCall of the nearest assistant message
\* before it
ToolMessagesReferToCalls(log) ==
  \A i \in 1..Len(log) :
    log[i].role = "tool" =>
      LET j == AssistantBefore(log, i)
      IN /\ j > 0
         /\ \E c \in 1..Len(log[j].tool_calls) :
              log[j].tool_calls[c].id = log[i].tool_call_id

\* every ToolCall of the latest assistant message has exactly one tool
\* message after it
CallsAnswered(log) ==
  LET j == LastAssistantIdx(log)
  IN j > 0 =>
       \A c \in 1..Len(log[j].tool_calls) :
         Cardinality({i \in (j + 1)..Len(log) :
                        /\ log[i].role = "tool"
                        /\ log[i].tool_call_id = log[j].tool_calls[c].id}) = 1

\* C17: in the log of a running turn and in the checkpoint of every thread,
\* every tool message refers to a ToolCall of the nearest preceding assistant
\* message; and whenever Chat is the node to run, every ToolCall of the
\* latest assistant message has exactly one tool message after it
C17_ToolCallIdInvariant ==
  /\ \A t \in Threads : ToolMessagesReferToCalls(store[t].messages)
  /\ \A r \in Reqs :
       /\ ToolMessagesReferToCalls(mem[r])
       /\ (pc[r] = "stream" /\ node[r] = "chat") => CallsAnswered(mem[r])

\* the first half of C17
C17_ToolMessagesRefer ==
  /\ \A t \in Threads : ToolMessagesReferToCalls(store[t].messages)
  /\ \A r \in Reqs : ToolMessagesReferToCalls(mem[r])

(***************************************************************************)
(* C18                                                                     *)
(***************************************************************************)
\* the node that ran last in the turn of request r
RanLast(r) ==
  CASE lastStep[r] = "input" -> "__start__"
    [] lastStep[r] = "chat" -> "chat"
    [] lastStep[r] = "tools" -> "tools"
    [] OTHER -> END

\* C18: the first node of every turn is Chat; after Chat comes Tools or the
\* end, after Tools always Chat; never more than one node is due; and a turn
\* that returns its reply has ended after a Chat step, with no node due
C18_TurnStateMachine ==
  \A r \in Reqs :
    /\ lastStep[r] = "input" => node[r] = "chat"
    /\ lastStep[r] = "chat" => node[r] \in {"tools", END}
    /\ lastStep[r] = "tools" => node[r] = "chat"
    /\ lastStep[r] # "none" =>
         Cardinality(Targets(RanLast(r), Last(mem[r]))) <= 1
    /\ pc[r] = "done" => (lastStep[r] = "chat" /\ node[r] = END)

C18_Witness ==
  \E r \in Reqs :
    /\ pc[r] = "done"
    /\ steps[r] = 3
    /\ invoked[r] = 2
    /\ lastStep[r] = "chat"
    /\ reply[r] # <<>>

(***************************************************************************)
(* C19                                                                     *)
(***************************************************************************)
\* the calendar before the call
CalBefore == cal \cup cres.deleted

\* C19: when the API answers, a call for a start time at which no event of
\* the calendar starts raises "No event found" and deletes nothing, and any
\* other call deletes exactly one event, one that starts at that time
C19_DeletesOnlyAtStartTime ==
  (cres.done /\ cq.api_ok) =>
    IF \A ev \in CalBefore : ev.start # cq.start_time
    THEN cres.outcome = "no_event" /\ cres.deleted = {}
    ELSE /\ cres.outcome = "deleted"
         /\ Cardinality(cres.deleted) = 1
         /\ \A ev \in cres.deleted : ev.start = cq.start_time

(***************************************************************************)
(* C20                                                                     *)
(***************************************************************************)
IsPrefix(a, b) == Len(a) <= Len(b) /\ SubSeq(b, 1, Len(a)) = a

\* C20: every iteration of the loop leaves final_response as it was or
\* appends characters to it: what was accepted stays, in its place
C20_BufferAppendOnly == [][IsPrefix(buffer, buffer')]_vars

C20_Witness ==
  /\ pos = 3
  /\ Accepted(events[1])
  /\ Accepted(events[2])
  /\ ~Accepted(events[3])
  /\ EventText(events[3]) # <<>>
  /\ EventText(events[1]) # EventText(events[2])
  /\ buffer = EventText(events[1]) \o EventText(events[2])

(***************************************************************************)
(* C21                                                                     *)
(***************************************************************************)
AiRecords == SelectSeq(hist, LAMBDA row : row.message_type = "ai")

\* C21: Twilio is called at most once for a turn, only when the stream of
\* the turn is exhausted and with the whole non-empty reply; every 'ai' row
\* of the messages table holds a reply that was sent to that number, there
\* are never more 'ai' rows than sends, and a turn that ends with an empty
\* reply has sent nothing
C21_SendOnceThenRecord ==
  /\ \A r \in Reqs :
       /\ Len(SentOf(turn[r])) <= 1
       /\ (turn[r] > 0 /\ SentOf(turn[r]) # <<>>) =>
            /\ pc[r] = "done"
            /\ node[r] = END
            /\ SentOf(turn[r])[1].body = reply[r]
            /\ SentOf(turn[r])[1].to = thread[r]
       /\ (pc[r] = "done" /\ reply[r] = <<>>) => SentOf(turn[r]) = <<>>
  /\ \A i \in 1..Len(sent) : sent[i].body # <<>>
  /\ Len(AiRecords) <= Len(sent)
  /\ \A i \in 1..Len(AiRecords) :
       /\ AiRecords[i].content # <<>>
       /\ \E j \in 1..Len(sent) :
            /\ sent[j].body = AiRecords[i].content
            /\ sent[j].to = AiRecords[i].to

C21_Witness ==
  \E r \in Reqs :
    /\ pc[r] = "done"
    /\ turn[r] = 2
    /\ reply[r] # <<>>
    /\ Len(SentOf(2)) = 1
    /\ Len(sent) = 2
    /\ Len(AiRecords) = 1
    /\ AiRecords[1].content = reply[r]

(***************************************************************************)
(* C22                                                                     *)
(***************************************************************************)
SystemCount(log) == Len(SelectSeq(log, LAMBDA m : m.role = "system"))

\* the turns received so far with From = t, and those of them that completed
StartedOn(t) ==
  {e.turn : e \in {x \in ended : x.thread = t}}
    \cup {turn[r] : r \in {q \in Reqs : pc[q] # "idle" /\ thread[q] = t}}

CompletedOn(t) ==
  {e.turn : e \in {x \in ended : x.thread = t /\ x.status = 200}}
    \cup {turn[r] : r \in {q \in Reqs : pc[q] = "done" /\ thread[q] = t}}

\* when every turn received for a thread has completed, its checkpoint holds
\* as many system messages as turns
SystemPerCompletedTurn ==
  \A t \in Threads :
    StartedOn(t) = CompletedOn(t) =>
      SystemCount(store[t].messages) = Cardinality(CompletedOn(t))

\* the input of a turn lies on top of the log it loaded: a system message,
\* then the user message with the prompt
InputOnTop ==
  \A r \in Reqs :
    lastStep[r] # "none" =>
      /\ Len(mem[r]) >= base[r] + 2
      /\ mem[r][base[r] + 1] = Msg("system", StrC(SystemText), <<>>, "", turn[r])
      /\ mem[r][base[r] + 2] = Msg("user", StrC(prompt[r]), <<>>, "", turn[r])
      /\ \A i \in 1..base[r] : mem[r][i].by # turn[r]

\* C22: every turn submits a system message and then the user message on
\* top of the thread's checkpointed log, no step removes or changes a
\* checkpointed message, and after k completed turns on a thread (and no
\* other) its checkpoint holds k system messages
C22_SystemMessagePerTurn ==
  [][/\ \A t \in Threads : IsPrefix(store[t].messages, store'[t].messages)
     /\ InputOnTop'
     /\ SystemPerCompletedTurn']_vars

C22_Witness ==
  \E t \in Threads :
    /\ StartedOn(t) = {1, 2}
    /\ CompletedOn(t) = {1, 2}
    /\ SystemCount(store[t].messages) = 2
    /\ store[t].messages[1].role = "system"
    /\ \E i \in 4..Len(store[t].messages) :
         store[t].messages[i] = Msg("system", StrC(SystemText), <<>>, "", 2)

(***************************************************************************)
(* C23                                                                     *)
(***************************************************************************)
\* request r has run a step of its stream in this transition
Stepped(r) == lastStep'[r] # lastStep[r] \/ steps'[r] # steps[r]

\* every message of the checkpoint of a thread is of a turn of that thread
OnlyOwnTurns ==
  \A t \in Threads :
    \A i \in 1..Len(store[t].messages) : store[t].messages[i].by \in StartedOn(t)

\* C23: a step of a turn changes the checkpoint of its own thread only and
\* starts from the checkpoint of its own thread, however the turns of
\* different threads interleave; so the checkpoint of a thread never holds a
\* message of a turn of another thread
C23_ThreadFrame ==
  [][/\ \A t \in Threads :
          store'[t] # store[t] => \E r \in Reqs : thread[r] = t /\ Stepped(r)
     /\ \A r \in Reqs :
          (lastStep[r] = "none" /\ lastStep'[r] = "input") =>
            SubSeq(mem'[r], 1, base'[r]) = store[thread[r]].messages
     /\ OnlyOwnTurns']_vars

C23_Witness ==
  /\ pc[1] = "stream"
  /\ pc[2] = "stream"
  /\ thread[1] # thread[2]
  /\ lastStep[1] = "chat"
  /\ lastStep[2] = "tools"
  /\ store[thread[1]].messages = mem[1]
  /\ store[thread[2]].messages = mem[2]
  /\ turn[1] = 2

(***************************************************************************)
(* C24                                                                     *)
(***************************************************************************)
\* C24: the URL is tried first and the DSN only after the URL has raised;
\* the first candidate that connects is kept and no other is tried; when
\* both raise the constructor raises RuntimeError with no setup() and no
\* compiled graph; and setup() and the compiled graph only ever exist with
\* a checkpointer
C24_UrlThenDsn ==
  /\ ctor.tried \in {<<>>, <<"url">>, <<"url", "dsn">>}
  /\ Len(ctor.tried) = 2 => ~cenv.url_ok
  /\ ctor.memory = "url" => (ctor.tried = <<"url">> /\ cenv.url_ok)
  /\ ctor.memory = "dsn" => (ctor.tried = <<"url", "dsn">> /\ cenv.dsn_ok)
  /\ (ctor.pc \notin {"connect", "check"} /\ cenv.url_ok) => ctor.memory = "url"
  /\ (ctor.pc \notin {"connect", "check"} /\ ~cenv.url_ok /\ cenv.dsn_ok) =>
       ctor.memory = "dsn"
  /\ (ctor.pc \notin {"connect", "check"} /\ ~cenv.url_ok /\ ~cenv.dsn_ok) =>
       /\ ctor.pc = "raised"
       /\ ctor.raised = "RuntimeError"
       /\ ctor.tried = <<"url", "dsn">>
  /\ ctor.raised = "RuntimeError" => (~cenv.url_ok /\ ~cenv.dsn_ok)
  /\ (ctor.setup_done \/ ctor.compiled \/ ctor.pc \in {"setup", "client", "compile", "built"}) =>
       ctor.memory # "none"
  /\ ctor.compiled => ctor.setup_done

C24_Witness ==
  /\ ctor.pc = "built"
  /\ ctor.memory = "dsn"
  /\ ctor.last_err = "url"
  /\ ctor.compiled

C24_WitnessBothFail ==
  /\ ctor.pc = "raised"
  /\ ctor.raised = "RuntimeError"
  /\ ctor.last_err = "dsn"
  /\ ~ctor.setup_done

====
